---- MODULE Spec2Model ----
(***************************************************************************)
(* Model of first_fit_decreasing (src/Verschnittoptimierung.py), the 1D    *)
(* cutting-stock packer.  One call of the function is a run through        *)
(* pc = "call" -> "sort" -> "pack" -> "done"; the packing loop advances    *)
(* one part per step.  The caller (main) may call the function a second    *)
(* time on the same inputs, which is how Streamlit re-runs the script.     *)
(* Lengths are integers, as produced by the number_input widgets of main.  *)
(***************************************************************************)
EXTENDS Integers, Sequences, FiniteSets

\* ---- bounds of the model ------------------------------------------------
MaxStock == 4      \* stock_length ranges over 1..MaxStock
MaxLen == 5        \* effective lengths range over 1..MaxLen
MaxQty == 2        \* quantities range over 1..MaxQty
MaxDemands == 3    \* the demand list has 0..MaxDemands entries
MaxRuns == 2       \* number of calls made on the same input

VARIABLES stock_length, demands, items, rods, k, pc, result_data, run, prev

vars == <<stock_length, demands, items, rods, k, pc, result_data, run, prev>>

\* ---- helpers -------------------------------------------------------------
RECURSIVE SumSeq(_)
SumSeq(s) == IF s = <<>> THEN 0 ELSE Head(s) + SumSeq(Tail(s))

RECURSIVE Reverse(_)
Reverse(s) == IF s = <<>> THEN <<>> ELSE Append(Reverse(Tail(s)), Head(s))

SeqsUpTo(S, n) == UNION {[1..m -> S] : m \in 0..n}

\* ---- step 1: expansion (lines 45-48) -------------------------------------
\* for _ in range(qty): items.append((eff_length, i))
RECURSIVE Replicate(_, _)
Replicate(x, n) == IF n <= 0 THEN <<>> ELSE <<x>> \o Replicate(x, n - 1)

\* the quantity-dropping variant: range(qty - 1)
RECURSIVE ExpandItemsShort(_, _)
ExpandItemsShort(d, i) ==
    IF i > Len(d) THEN <<>>
    ELSE Replicate(<<d[i][1], i - 1>>, d[i][2] - 1) \o ExpandItemsShort(d, i + 1)

\* for i, (eff_length, qty) in enumerate(demands): ...   (i is 0-based; the
\* operator's second argument is the 1-based position in the sequence)
RECURSIVE ExpandItems(_, _)
ExpandItems(d, i) ==
    IF i > Len(d) THEN <<>>
    ELSE Replicate(<<d[i][1], i - 1>>, d[i][2]) \o ExpandItems(d, i + 1)

\* ---- step 2: items.sort(key=lambda x: x[0], reverse=True) (line 51) ------
\* list.sort is a stable ascending sort on the key; with reverse=True the
\* list is reversed, sorted ascending (stable), and reversed again.
RECURSIVE InsertAsc(_, _)
InsertAsc(x, t) ==
    IF t = <<>> THEN <<x>>
    ELSE IF x[1] < Head(t)[1] THEN <<x>> \o t
         ELSE <<Head(t)>> \o InsertAsc(x, Tail(t))

RECURSIVE StableSortAsc(_)
StableSortAsc(s) ==
    IF s = <<>> THEN <<>>
    ELSE InsertAsc(s[Len(s)], StableSortAsc(SubSeq(s, 1, Len(s) - 1)))

\* the tie-reversing variant: sorted ascending, then reversed
SortReversedAsc(s) == Reverse(StableSortAsc(s))

SortDescending(s) == Reverse(StableSortAsc(Reverse(s)))

\* ---- step 4: first fit (lines 57-73) -------------------------------------
\* off-by-one variant of the fit test
FitsOffByOne(rod, part_length) == rod.leftover + 1 >= part_length

\* variant that accepts any rod with something left
FitsAnyLeftover(rod, part_length) == rod.leftover > 0

\* strict variant of the fit test
FitsStrict(rod, part_length) == rod.leftover > part_length

\* if rod["leftover"] >= part_length            (line 60)
Fits(rod, part_length) == rod.leftover >= part_length

\* last-fit variant of the scan
LastFit(rs, part_length) ==
    IF \E r \in 1..Len(rs) : Fits(rs[r], part_length)
    THEN CHOOSE r \in 1..Len(rs) :
            /\ Fits(rs[r], part_length)
            /\ \A q \in (r + 1)..Len(rs) : ~Fits(rs[q], part_length)
    ELSE 0

\* for rod in rods: if ...: ...; break          (lines 59-65)
\* position of the first rod that fits, 0 when the scan ends without a break
FirstFit(rs, part_length) ==
    IF \E r \in 1..Len(rs) : Fits(rs[r], part_length)
    THEN CHOOSE r \in 1..Len(rs) :
            /\ Fits(rs[r], part_length)
            /\ \A q \in 1..(r - 1) : ~Fits(rs[q], part_length)
    ELSE 0

\* variant that forgets to recompute the leftover
AddPartStaleLeftover(rod, part, stock) ==
    [rod EXCEPT !.parts = Append(@, part),
                !.used_length = @ + part[1]]

\* body of the if on lines 61-63
AddPart(rod, part, stock) ==
    [rod EXCEPT !.parts = Append(@, part),
                !.used_length = @ + part[1],
                !.leftover = stock - (rod.used_length + part[1])]

\* 0-based variant of the identifier
NextRodIdZeroBased(rs) == Len(rs)

\* "rod_id": len(rods) + 1                      (line 69)
NextRodId(rs) == Len(rs) + 1

\* variant that clamps the leftover of a new rod at zero
MakeRodClamped(id, part, stock) ==
    [rod_id |-> id,
     used_length |-> part[1],
     leftover |-> IF stock - part[1] < 0 THEN 0 ELSE stock - part[1],
     parts |-> <<part>>]

\* the dict appended on lines 68-73
MakeRod(id, part, stock) ==
    [rod_id |-> id,
     used_length |-> part[1],
     leftover |-> stock - part[1],
     parts |-> <<part>>]

\* variant in which the rod list survives from the previous call
StaleRods == rods

\* rods = []                                    (line 54)
FreshRods == <<>>

\* ---- step 5: result rows (lines 76-97) -----------------------------------
\* part_count: insertion-ordered dict keyed by (idx, length); modelled as a
\* sequence of <<idx, length, count>> in first-encountered order
CountPart(pc_, part) ==
    IF \E g \in 1..Len(pc_) : pc_[g][1] = part[2] /\ pc_[g][2] = part[1]
    THEN [g \in 1..Len(pc_) |->
            IF pc_[g][1] = part[2] /\ pc_[g][2] = part[1]
            THEN <<pc_[g][1], pc_[g][2], pc_[g][3] + 1>>
            ELSE pc_[g]]
    ELSE Append(pc_, <<part[2], part[1], 1>>)

RECURSIVE PartCount(_)
PartCount(parts) ==
    IF parts = <<>> THEN <<>>
    ELSE CountPart(PartCount(SubSeq(parts, 1, Len(parts) - 1)), parts[Len(parts)])

\* parts_str: the comma-joined "<count> x <int(length)>" groups, kept as the
\* sequence of <<count, length>> pairs the string is printed from
PartsStr(parts) ==
    LET pcnt == PartCount(parts)
    IN [g \in 1..Len(pcnt) |-> <<pcnt[g][3], pcnt[g][2]>>]

ResultRow(rod) ==
    [rod_id |-> rod.rod_id,
     used_length |-> rod.used_length,
     leftover |-> rod.leftover,
     parts_str |-> PartsStr(rod.parts)]

ResultData(rs) == [r \in 1..Len(rs) |-> ResultRow(rs[r])]

\* ---- the state machine ---------------------------------------------------
Demand == (1..MaxLen) \X (1..MaxQty)

Init ==
    /\ stock_length \in 1..MaxStock
    /\ demands \in SeqsUpTo(Demand, MaxDemands)
    /\ items = <<>>
    /\ rods = <<>>
    /\ k = 1
    /\ pc = "call"
    /\ result_data = <<>>
    /\ run = 1
    /\ prev = <<>>

\* lines 45-48
Expand ==
    /\ pc = "call"
    /\ items' = ExpandItems(demands, 1)
    /\ pc' = "sort"
    /\ UNCHANGED <<stock_length, demands, rods, k, result_data, run, prev>>

\* lines 51-54
Sort ==
    /\ pc = "sort"
    /\ items' = SortDescending(items)
    /\ rods' = FreshRods
    /\ k' = 1
    /\ pc' = "pack"
    /\ UNCHANGED <<stock_length, demands, result_data, run, prev>>

\* one iteration of the loop of line 57 that ends in the break of line 65
PlaceInRod ==
    /\ pc = "pack"
    /\ k <= Len(items)
    /\ FirstFit(rods, items[k][1]) # 0
    /\ LET r == FirstFit(rods, items[k][1])
       IN rods' = [rods EXCEPT ![r] = AddPart(rods[r], items[k], stock_length)]
    /\ k' = k + 1
    /\ UNCHANGED <<stock_length, demands, items, pc, result_data, run, prev>>

\* one iteration of the loop of line 57 that reaches "if not placed"
NewRod ==
    /\ pc = "pack"
    /\ k <= Len(items)
    /\ FirstFit(rods, items[k][1]) = 0
    /\ rods' = Append(rods, MakeRod(NextRodId(rods), items[k], stock_length))
    /\ k' = k + 1
    /\ UNCHANGED <<stock_length, demands, items, pc, result_data, run, prev>>

\* lines 76-97, after the loop of line 57 is exhausted
BuildResult ==
    /\ pc = "pack"
    /\ k > Len(items)
    /\ result_data' = ResultData(rods)
    /\ pc' = "done"
    /\ UNCHANGED <<stock_length, demands, items, rods, k, run, prev>>

\* main calls first_fit_decreasing again with the same widgets' values
CallAgain ==
    /\ pc = "done"
    /\ run < MaxRuns
    /\ prev' = <<rods, result_data>>
    /\ run' = run + 1
    /\ pc' = "call"
    /\ UNCHANGED <<stock_length, demands, items, rods, k, result_data>>

Next == Expand \/ Sort \/ PlaceInRod \/ NewRod \/ BuildResult \/ CallAgain

Spec == Init /\ [][Next]_vars

TypeOK ==
    /\ stock_length \in 1..MaxStock
    /\ demands \in SeqsUpTo(Demand, MaxDemands)
    /\ pc \in {"call", "sort", "pack", "done"}
    /\ run \in 1..MaxRuns
    /\ k \in 1..(Len(items) + 1)

\* ---- vocabulary of the properties ----------------------------------------
RodIdx == 1..Len(rods)

PartLengths(rod) == [n \in 1..Len(rod.parts) |-> rod.parts[n][1]]

\* number of parts tagged with demand index i held by a rod
Tagged(rod, i) == Cardinality({n \in 1..Len(rod.parts) : rod.parts[n][2] = i})

TaggedOnAllRods(i) == SumSeq([r \in RodIdx |-> Tagged(rods[r], i)])

TotalPlaced == SumSeq([r \in RodIdx |-> Len(rods[r].parts)])

TotalQuantity == SumSeq([i \in 1..Len(demands) |-> demands[i][2]])

TotalDemandLength == SumSeq([i \in 1..Len(demands) |-> demands[i][1] * demands[i][2]])

TotalUsed == SumSeq([r \in RodIdx |-> rods[r].used_length])

AllPartsFeasible(rod) == \A n \in 1..Len(rod.parts) : rod.parts[n][1] <= stock_length

WithinCapacity(rod) == rod.leftover >= 0 /\ rod.used_length <= stock_length

\* a step of the packing loop that places items[k]
PlacementStep == pc = "pack" /\ k <= Len(items) /\ k' = k + 1

\* leftover, before the step, of the rod that receives items[k]; a rod that
\* is created by the step starts from the full stock length
LeftoverBeforeCovers ==
    IF Len(rods') > Len(rods)
    THEN stock_length >= items[k][1]
    ELSE \A r \in RodIdx : rods'[r] # rods[r] => rods[r].leftover >= items[k][1]

\* ---- C1 ------------------------------------------------------------------
\* C1: when first_fit_decreasing finishes, for each demand index i the number
\* of parts tagged i over all rods equals that demand's quantity, and the
\* total number of placed parts equals the sum of the quantities.
C1_Conservation ==
    pc = "done" =>
        /\ \A i \in 1..Len(demands) : TaggedOnAllRods(i - 1) = demands[i][2]
        /\ TotalPlaced = TotalQuantity

C1_Witness ==
    /\ pc = "done"
    /\ Len(demands) >= 2
    /\ \E i \in 1..Len(demands) : demands[i][2] >= 2
    /\ Len(rods) >= 2
    /\ \E r \in RodIdx : Len(rods[r].parts) >= 2

\* ---- C2 ------------------------------------------------------------------
\* C2 as stated: every rod has leftover >= 0 and used_length <= stock_length
\* at all times, and every placement, rod creation included, happens only
\* when the leftover before it is >= the part's length, whatever the part's
\* length is relative to stock_length.
C2_AsStated ==
    /\ [](\A r \in RodIdx : WithinCapacity(rods[r]))
    /\ [][PlacementStep => LeftoverBeforeCovers]_vars

\* C2 amended: the same, restricted to rods none of whose parts is longer
\* than stock_length and to placements of parts no longer than stock_length.
C2_Amended ==
    /\ [](\A r \in RodIdx : AllPartsFeasible(rods[r]) => WithinCapacity(rods[r]))
    /\ [][PlacementStep /\ items[k][1] <= stock_length => LeftoverBeforeCovers]_vars

C2_Witness ==
    /\ pc = "pack"
    /\ k > 1
    /\ \E r \in RodIdx : rods[r].leftover < 0
    /\ \E r \in RodIdx : Len(rods[r].parts) >= 2 /\ rods[r].leftover = 0

\* ---- C3 ------------------------------------------------------------------
\* C3: a rod whose parts are each no longer than stock_length has
\* used_length <= stock_length and leftover >= 0 after every placement step
\* and in the final result.
C3_Capacity ==
    \A r \in RodIdx :
        (\A n \in 1..Len(rods[r].parts) : rods[r].parts[n][1] <= stock_length)
            => (rods[r].used_length <= stock_length /\ rods[r].leftover >= 0)

C3_Witness ==
    /\ pc = "done"
    /\ \E r \in RodIdx : Len(rods[r].parts) >= 3 /\ rods[r].used_length = stock_length
    /\ \E r \in RodIdx : AllPartsFeasible(rods[r]) /\ rods[r].leftover > 0

\* ---- C4 ------------------------------------------------------------------
\* C4: a part longer than stock_length sits alone on its rod, whose leftover
\* is exactly stock_length minus the part's length (negative), and stays
\* alone; a rod has negative leftover only if it holds exactly one part and
\* that part is longer than stock_length.
C4_Oversized ==
    \A r \in RodIdx :
        /\ (\E n \in 1..Len(rods[r].parts) : rods[r].parts[n][1] > stock_length)
              => /\ Len(rods[r].parts) = 1
                 /\ rods[r].leftover = stock_length - rods[r].parts[1][1]
                 /\ rods[r].leftover < 0
        /\ rods[r].leftover < 0
              => /\ Len(rods[r].parts) = 1
                 /\ rods[r].parts[1][1] > stock_length

C4_Witness ==
    /\ pc = "done"
    /\ Len(rods) >= 2
    /\ rods[1].leftover < 0
    /\ Len(rods[1].parts) = 1
    /\ \E r \in RodIdx : Len(rods[r].parts) >= 2

\* ---- C5 ------------------------------------------------------------------
\* C5: each placement step puts the part into the lowest-numbered rod whose
\* leftover is >= the part's length, and creates a rod if and only if no
\* existing rod has leftover >= the part's length.
C5_FirstFit ==
    [][PlacementStep =>
        LET len == items[k][1]
            fitting == {r \in RodIdx : rods[r].leftover >= len}
        IN /\ (Len(rods') = Len(rods) + 1) <=> (fitting = {})
           /\ fitting = {} =>
                /\ rods'[Len(rods')].parts = <<items[k]>>
                /\ \A r \in RodIdx : rods'[r] = rods[r]
           /\ fitting # {} =>
                /\ Len(rods') = Len(rods)
                /\ \A r \in RodIdx :
                     IF r \in fitting /\ \A q \in fitting : r <= q
                     THEN rods'[r].parts = Append(rods[r].parts, items[k])
                     ELSE rods'[r] = rods[r]
    ]_vars

\* a second part went to rod 2 after rod 3 was opened, and rod 3 had room
C5_Witness ==
    /\ Len(rods) >= 3
    /\ Len(rods[2].parts) >= 2
    /\ rods[2].parts[2][1] < rods[3].parts[1][1]
    /\ rods[3].leftover >= rods[2].parts[2][1]

\* ---- C6 ------------------------------------------------------------------
\* C6: parts are placed in non-increasing order of length, equal lengths in
\* ascending demand index; the first part on rod 1 has the maximum length of
\* all parts and, among the maxima, the smallest demand index.
C6_DescendingStable ==
    pc \in {"pack", "done"} =>
        /\ \A a, b \in 1..Len(items) :
              a < b => /\ items[a][1] >= items[b][1]
                       /\ items[a][1] = items[b][1] => items[a][2] <= items[b][2]
        /\ \A r \in RodIdx : \A n \in 1..Len(rods[r].parts) :
              \E a \in 1..(k - 1) : items[a] = rods[r].parts[n]
        /\ rods # <<>> =>
              \A i \in 1..Len(demands) :
                 /\ demands[i][1] <= rods[1].parts[1][1]
                 /\ demands[i][1] = rods[1].parts[1][1] => rods[1].parts[1][2] <= i - 1

C6_Witness ==
    /\ pc = "done"
    /\ Len(demands) = 3
    /\ demands[1][1] < demands[2][1]
    /\ demands[2][1] = demands[3][1]
    /\ rods[1].parts[1] = <<demands[2][1], 1>>

\* ---- C7 ------------------------------------------------------------------
\* C7: when packing finishes, the used lengths of all rods add up to the sum
\* of length * quantity over the demands, each rod's leftover is stock_length
\* minus its used_length, and its used_length is the sum of its parts.
C7_Lengths ==
    pc = "done" =>
        /\ TotalUsed = TotalDemandLength
        /\ \A r \in RodIdx :
              /\ rods[r].leftover = stock_length - rods[r].used_length
              /\ rods[r].used_length = SumSeq(PartLengths(rods[r]))

C7_Witness ==
    /\ pc = "done"
    /\ Len(rods) >= 2
    /\ \E r \in RodIdx : Len(rods[r].parts) >= 2 /\ rods[r].leftover > 0
    /\ TotalDemandLength > stock_length

\* ---- C8 ------------------------------------------------------------------
\* C8: a second call on the same stock_length and demand list ends with the
\* same rods (ids, used lengths, leftovers, ordered parts) and the same
\* result rows as the first, and no step changes the demand list.
C8_Deterministic ==
    /\ [](pc = "done" /\ run > 1 => prev = <<rods, result_data>>)
    /\ [][demands' = demands /\ stock_length' = stock_length]_vars

C8_Witness ==
    /\ pc = "done"
    /\ run = 2
    /\ Len(rods) >= 2
    /\ \E r \in RodIdx : Len(rods[r].parts) >= 2

\* ---- C9 ------------------------------------------------------------------
\* C9: during the packing pass rods are only appended, an existing rod keeps
\* its place and identifier and its parts only grow at the end; a rod's
\* identifier is its 1-based position, and the result rows carry the ids
\* 1..N in that order.
C9_AppendOnly ==
    /\ [](pc \in {"pack", "done"} => \A r \in RodIdx : rods[r].rod_id = r)
    /\ [](pc = "done" =>
            /\ Len(result_data) = Len(rods)
            /\ \A r \in RodIdx : result_data[r].rod_id = r)
    /\ [][pc = "pack" =>
            /\ Len(rods') >= Len(rods)
            /\ \A r \in RodIdx :
                 /\ rods'[r].rod_id = rods[r].rod_id
                 /\ Len(rods'[r].parts) >= Len(rods[r].parts)
                 /\ SubSeq(rods'[r].parts, 1, Len(rods[r].parts)) = rods[r].parts
       ]_vars

C9_Witness ==
    /\ pc = "done"
    /\ Len(result_data) >= 3
    /\ \E r \in RodIdx : r < Len(rods) /\ Len(rods[r].parts) >= 2

\* ---- C10 -----------------------------------------------------------------
\* C10: in the final result, for rods i < j the leftover of rod i is smaller
\* than every part held by rod j, and any two distinct rods together use more
\* than stock_length.
C10_NoMerge ==
    pc = "done" =>
        /\ \A i, j \in RodIdx :
              i < j => \A n \in 1..Len(rods[j].parts) :
                          rods[i].leftover < rods[j].parts[n][1]
        /\ \A i, j \in RodIdx :
              i # j => rods[i].used_length + rods[j].used_length > stock_length

C10_Witness ==
    /\ pc = "done"
    /\ Len(rods) >= 3
    /\ \E i \in RodIdx : i < Len(rods) /\ rods[i].leftover > 0
    /\ \E j \in RodIdx : j > 1 /\ Len(rods[j].parts) >= 2
====
